---------------------------- MODULE Spec2Model ----------------------------
(***************************************************************************)
(* unpack_vendor_boot (src/main.c): reads the header of an Android vendor  *)
(* boot image, checks its magic, and copies the page-aligned vendor        *)
(* ramdisk and dtb segments into vendor_ramdisk.img and vendor_dtb.img.    *)
(*                                                                         *)
(* The header fields are uint32_t.  TLC's integers stop at 2^31 - 1, so a  *)
(* number is kept as a pair <<hi, lo>> standing for hi * 2^16 + lo with    *)
(* 0 <= lo < 2^16; a uint32_t has hi < 2^16 and a long (64 bits, LP64)     *)
(* any hi the run can produce (offsets stay below 2^34).                   *)
(***************************************************************************)
EXTENDS Integers, Sequences, FiniteSets

(***************************************************************************)
(* Numbers                                                                 *)
(***************************************************************************)
Base == 256 * 256

W(n) == <<n \div Base, n % Base>>

W0 == <<0, 0>>

W1 == <<0, 1>>

\* 2^32, the modulus of uint32_t arithmetic
TwoTo32 == <<Base, 0>>

\* the largest uint32_t
UINT32_MAX == <<Base - 1, Base - 1>>

WAdd(a, b) ==
    LET lo == a[2] + b[2]
    IN  <<a[1] + b[1] + (lo \div Base), lo % Base>>

WLe(a, b) == a[1] < b[1] \/ (a[1] = b[1] /\ a[2] <= b[2])

WLt(a, b) == a[1] < b[1] \/ (a[1] = b[1] /\ a[2] < b[2])

\* a - b for a >= b
WSub(a, b) ==
    LET lo == a[2] - b[2]
    IN  IF lo >= 0 THEN <<a[1] - b[1], lo>> ELSE <<a[1] - b[1] - 1, lo + Base>>

WDouble(a) == WAdd(a, a)

WHalf(a) == <<a[1] \div 2, (a[2] + (a[1] % 2) * Base) \div 2>>

WOdd(a) == a[2] % 2 = 1

\* quotient and remainder of a by b, b > 0 (binary long division)
RECURSIVE WDivMod(_, _)
WDivMod(a, b) ==
    IF WLt(a, b)
    THEN [q |-> W0, r |-> a]
    ELSE LET h == WDivMod(a, WDouble(b))
         IN  IF WLe(b, h.r)
             THEN [q |-> WAdd(WDouble(h.q), W1), r |-> WSub(h.r, b)]
             ELSE [q |-> WDouble(h.q), r |-> h.r]

\* the product a * b, unbounded (double and add)
RECURSIVE WMul(_, _)
WMul(a, b) ==
    IF a = W0
    THEN W0
    ELSE WAdd(WDouble(WMul(WHalf(a), b)), IF WOdd(a) THEN b ELSE W0)

\* conversion to uint32_t: the value modulo 2^32
U32(a) == <<a[1] % Base, a[2]>>

\* uint32_t a + b
U32Add(a, b) == U32(WAdd(a, b))

\* uint32_t a - b
U32Sub(a, b) == IF WLe(b, a) THEN WSub(a, b) ELSE WSub(WAdd(a, TwoTo32), b)

\* uint32_t a / b, b > 0
U32Div(a, b) == WDivMod(a, b).q

\* uint32_t a * b
RECURSIVE U32Mul(_, _)
U32Mul(a, b) ==
    IF a = W0
    THEN W0
    ELSE U32(WAdd(WDouble(U32Mul(WHalf(a), b)), IF WOdd(a) THEN b ELSE W0))

(***************************************************************************)
(* Program constants                                                       *)
(***************************************************************************)
\* "VNDRBOOT"
VENDOR_BOOT_MAGIC == <<86, 78, 68, 82, 66, 79, 79, 84>>

VENDOR_BOOT_MAGIC_SIZE == 8

VENDOR_BOOT_ARGS_SIZE == 2048

VENDOR_BOOT_NAME_SIZE == 16

VENDOR_HEADER_SIZE == 2112

VENDOR_RAMDISK == "vendor_ramdisk.img"

VENDOR_DTB == "vendor_dtb.img"

\* #define PAGES(size, page_size), evaluated in uint32_t; page_size > 0
PAGES(size, page_size) ==
    U32Div(U32Sub(U32Add(size, page_size), W1), page_size)

\* #define ALIGN(size, page_size), evaluated in uint32_t; page_size > 0
ALIGN(size, page_size) == U32Mul(PAGES(size, page_size), page_size)

(***************************************************************************)
(* struct vendor_boot_img_hdr: the offset of each member, its size, and    *)
(* the offset one past the struct.                                         *)
(***************************************************************************)
hdr_layout ==
    [magic               |-> [off |-> 0,    size |-> VENDOR_BOOT_MAGIC_SIZE],
     header_version      |-> [off |-> 8,    size |-> 4],
     page_size           |-> [off |-> 12,   size |-> 4],
     kernel_addr         |-> [off |-> 16,   size |-> 4],
     ramdisk_addr        |-> [off |-> 20,   size |-> 4],
     vendor_ramdisk_size |-> [off |-> 24,   size |-> 4],
     cmdline             |-> [off |-> 28,   size |-> VENDOR_BOOT_ARGS_SIZE],
     tags_addr           |-> [off |-> 2076, size |-> 4],
     name                |-> [off |-> 2080, size |-> VENDOR_BOOT_NAME_SIZE],
     header_size         |-> [off |-> 2096, size |-> 4],
     dtb_size            |-> [off |-> 2100, size |-> 4],
     dtb_addr            |-> [off |-> 2104, size |-> 8]]

\* sizeof(struct vendor_boot_img_hdr)
sizeof_hdr == hdr_layout.dtb_addr.off + hdr_layout.dtb_addr.size

(***************************************************************************)
(* Files.  A file's bytes are run-length coded: a run is len bytes, first  *)
(* those of text, then fill repeated.  flen is the file's length (a file   *)
(* cut short ends inside its runs).                                        *)
(***************************************************************************)
Run(len, text, fill) == [len |-> len, text |-> text, fill |-> fill]

RECURSIVE RunByte(_, _, _, _)
RunByte(runs, k, base, o) ==
    IF k > Len(runs)
    THEN 0
    ELSE LET end == WAdd(base, runs[k].len)
         IN  IF WLt(o, end)
             THEN LET i == WSub(o, base)
                  IN  IF i[1] = 0 /\ i[2] < Len(runs[k].text)
                      THEN runs[k].text[i[2] + 1]
                      ELSE runs[k].fill
             ELSE RunByte(runs, k + 1, end, o)

\* the byte at offset o of file f, o < f.flen
FileByte(f, o) == RunByte(f.runs, 1, W0, o)

\* the bytes left from position pos to the end of file f
Remaining(f, pos) == IF WLt(pos, f.flen) THEN WSub(f.flen, pos) ELSE W0

\* little-endian bytes of a uint32_t, and back
LE32(w) == <<w[2] % 256, w[2] \div 256, w[1] % 256, w[1] \div 256>>

LE32Decode(b) == <<b[4] * 256 + b[3], b[2] * 256 + b[1]>>

(***************************************************************************)
(* The vendor boot image format (the layout comment above the struct):     *)
(* header, ramdisk and dtb, each padded with zero bytes to a whole number  *)
(* of pages.  These are the inputs the program is run on.                  *)
(***************************************************************************)
\* o, p, q of the layout comment: (size + page_size - 1) / page_size pages
FormatPages(size, page_size) ==
    WDivMod(WSub(WAdd(size, page_size), W1), page_size).q

\* bytes a region of size bytes takes in flash (no alignment when the page
\* size is 0: the regions then follow each other directly)
FormatAligned(size, page_size) ==
    IF page_size = W0 THEN size ELSE WMul(FormatPages(size, page_size), page_size)

\* offset of the ramdisk and of the dtb in an image with page size P
FormatRamdiskStart(P) == FormatAligned(W(VENDOR_HEADER_SIZE), P)

FormatDtbStart(P, R) ==
    WAdd(FormatRamdiskStart(P), FormatAligned(W(Len(R)), P))

\* the header's bytes, member by member; the members the program never
\* looks at all hold the byte other
HeaderRuns(h) ==
    <<Run(W(VENDOR_BOOT_MAGIC_SIZE), h.magic, 0),
      Run(W(4), <<>>, h.other),
      Run(W(4), LE32(h.page_size), 0),
      Run(W(8), <<>>, h.other),
      Run(W(4), LE32(h.vendor_ramdisk_size), 0),
      Run(W(VENDOR_BOOT_ARGS_SIZE), h.cmdline.text, h.cmdline.fill),
      Run(W(4), <<>>, h.other),
      Run(W(VENDOR_BOOT_NAME_SIZE), h.name.text, h.name.fill),
      Run(W(4), <<>>, h.other),
      Run(W(4), LE32(h.dtb_size), 0),
      Run(W(8), <<>>, h.other)>>

\* an image: header h, ramdisk bytes R, dtb bytes D, cut to flen bytes
Image(h, R, D, flen) ==
    LET P == h.page_size
    IN  [runs |-> HeaderRuns(h) \o
                  <<Run(WSub(FormatRamdiskStart(P), W(VENDOR_HEADER_SIZE)), <<>>, 0),
                    Run(W(Len(R)), R, 0),
                    Run(WSub(FormatAligned(W(Len(R)), P), W(Len(R))), <<>>, 0),
                    Run(W(Len(D)), D, 0)>>,
         flen |-> flen,
         h |-> h, R |-> R, D |-> D]

\* the whole length of the image of h, R, D
FullLen(h, R, D) == WAdd(FormatDtbStart(h.page_size, R), W(Len(D)))

\* the image is whole: nothing of it was cut off
Whole(f) == f.flen = FullLen(f.h, f.R, f.D)

\* longest ramdisk and dtb of the inputs
MaxSeg == 2

\* payloads: n bytes, all different, none of them a padding byte
Payload(n, first) == [i \in 1..n |-> first + i]

Ramdisks == {Payload(n, 16) : n \in 0..MaxSeg}

Dtbs == {Payload(n, 32) : n \in 0..MaxSeg}

\* page sizes: none, one byte, small, usual, and the three around the point
\* where 2112 + page_size - 1 passes 2^32
PageSizes ==
    {W0, W1, W(5), W(4096),
     WSub(TwoTo32, W(VENDOR_HEADER_SIZE)),
     WSub(TwoTo32, W(VENDOR_HEADER_SIZE - 1)),
     UINT32_MAX}

\* a string member: "ab" and zero padding, empty, a NUL inside, no NUL at all
Strings ==
    {[text |-> <<97, 98>>, fill |-> 0],
     [text |-> <<>>, fill |-> 0],
     [text |-> <<97, 0, 98>>, fill |-> 99],
     [text |-> <<97, 98>>, fill |-> 99]}

PlainString == [text |-> <<97, 98>>, fill |-> 0]

\* magics: right, wrong in the first byte, wrong in the last byte, right up
\* to a NUL, NUL from the start
Magics ==
    {VENDOR_BOOT_MAGIC,
     <<88, 78, 68, 82, 66, 79, 79, 84>>,
     <<86, 78, 68, 82, 66, 79, 79, 83>>,
     <<86, 78, 68, 82, 0, 79, 79, 84>>,
     <<0, 0, 0, 0, 0, 0, 0, 0>>}

Header(magic, P, rs, ds, cmdline, name, other) ==
    [magic |-> magic, page_size |-> P, vendor_ramdisk_size |-> rs,
     dtb_size |-> ds, cmdline |-> cmdline, name |-> name, other |-> other]

\* where an image may be cut: not at all, before the header ends, right
\* after the header, one byte before the ramdisk and the dtb end
Cuts(h, R, D) ==
    LET P == h.page_size
    IN  {FullLen(h, R, D), W0, W(VENDOR_HEADER_SIZE - 1), W(VENDOR_HEADER_SIZE)}
        \cup {WSub(WAdd(FormatRamdiskStart(P), W(Len(R))), W1) : x \in {Len(R)} \ {0}}
        \cup {WSub(FullLen(h, R, D), W1) : x \in {Len(D)} \ {0}}

\* images of every geometry: the declared sizes are the payloads' or the
\* largest uint32_t
GeometryImages ==
    UNION {UNION {UNION {
        {Image(h, R, D, c) : c \in Cuts(h, R, D)} :
            h \in {Header(VENDOR_BOOT_MAGIC, P, rs, ds, PlainString, PlainString, 0) :
                     rs \in {W(Len(R)), UINT32_MAX},
                     ds \in {W(Len(D)), UINT32_MAX}}} :
            R \in Ramdisks, D \in Dtbs} : P \in PageSizes}

\* images of every magic, whole or cut inside the header
MagicImages ==
    UNION {{Image(Header(m, P, P, P, s, s, o), <<17>>, <<33>>, c) :
                c \in {FullLen(Header(m, P, P, P, s, s, o), <<17>>, <<33>>),
                       W(VENDOR_HEADER_SIZE - 1)}} :
        m \in Magics, P \in {W1, UINT32_MAX}, o \in {0, 7},
        s \in {PlainString, [text |-> <<97, 98>>, fill |-> 99]}}

\* images of every cmdline and name
StringImages ==
    {Image(Header(VENDOR_BOOT_MAGIC, W(5), W1, W1, c, n, o), <<17>>, <<33>>,
           FullLen(Header(VENDOR_BOOT_MAGIC, W(5), W1, W1, c, n, o), <<17>>, <<33>>)) :
        c \in Strings, n \in Strings, o \in {0, 7}}

Images == GeometryImages \cup MagicImages \cup StringImages

(***************************************************************************)
(* Library calls                                                           *)
(***************************************************************************)
\* a plausible slip: a read of no bytes taken for a read that succeeded
FreadItems_empty_ok(size, avail, ioerr) ==
    IF ~ioerr /\ WLe(size, avail) THEN 1 ELSE 0

\* fread(ptr, size, 1, stream): the number of whole items read, with avail
\* bytes left in the stream; no item is read when size is 0
FreadItems(size, avail, ioerr) ==
    IF size # W0 /\ ~ioerr /\ WLe(size, avail) THEN 1 ELSE 0

\* fwrite(ptr, size, 1, stream): the number of whole items written
FwriteItems(size, ok) == IF size # W0 /\ ok THEN 1 ELSE 0

RECURSIVE StrncmpFrom(_, _, _, _)
StrncmpFrom(s1, s2, n, i) ==
    IF i > n THEN 0
    ELSE IF s1[i] # s2[i] THEN s1[i] - s2[i]
    ELSE IF s1[i] = 0 THEN 0
    ELSE StrncmpFrom(s1, s2, n, i + 1)

\* a plausible slip: the last byte is left out of the comparison
Strncmp_short(s1, s2, n) == StrncmpFrom(s1, s2, n - 1, 1)

\* strncmp(s1, s2, n): 0 when the strings agree up to their NUL or n bytes
Strncmp(s1, s2, n) == StrncmpFrom(s1, s2, n, 1)

Min(S) == CHOOSE x \in S : \A y \in S : x <= y

\* index (from 0) of the first NUL of run r at or after index i, or -1
RunNul(r, i) ==
    LET T == {j \in i..(Len(r.text) - 1) : r.text[j + 1] = 0}
        f == IF i > Len(r.text) THEN i ELSE Len(r.text)
    IN  IF T # {} THEN Min(T)
        ELSE IF r.fill = 0 /\ f < r.len[2] THEN f
        ELSE -1

RECURSIVE FirstNul(_, _, _, _)
\* offset of the first NUL at or after offset off in the bytes of runs
\* k.. (run k starts at offset base), or -1 when there is none
FirstNul(runs, k, base, off) ==
    IF k > Len(runs) THEN -1
    ELSE LET n == runs[k].len[2]
             z == IF off >= base + n THEN -1
                  ELSE RunNul(runs[k], IF off > base THEN off - base ELSE 0)
         IN  IF z >= 0 THEN base + z ELSE FirstNul(runs, k + 1, base + n, off)

\* the header as read into memory: the runs of the file's first
\* sizeof(hdr) bytes
HdrMem(f) == SubSeq(f.runs, 1, 11)

\* printf("%s", p) with p the member at offset off of hdr: the bytes
\* printed are those up to the first NUL at or after p, wherever it is;
\* with no NUL up to the end of hdr the read runs into the memory after it
Printf_s(f, off) ==
    LET z == FirstNul(HdrMem(f), 1, 0, off)
    IN  IF z >= 0
        THEN [n |-> z - off, last |-> z, beyond |-> FALSE]
        ELSE [n |-> sizeof_hdr - off, last |-> sizeof_hdr, beyond |-> TRUE]

\* what reading past the end of hdr can do
OverreadOutcomes(beyond) == IF beyond THEN {"ok", "SIGSEGV"} ELSE {"ok"}

\* what the division by a zero page_size can do: trap, or (on targets whose
\* divide instruction does not trap) give 0
DivZeroOutcomes == {"SIGFPE", "zero"}

\* what fread into a NULL buffer can do once there are bytes to copy
NullReadOutcomes == {"SIGSEGV", "EFAULT"}

\* header members as fread leaves them in hdr
ReadU32(f, off) == LE32Decode([i \in 1..4 |-> FileByte(f, W(off + i - 1))])

DecodeHdr(f) ==
    [magic |-> [i \in 1..VENDOR_BOOT_MAGIC_SIZE |->
                    FileByte(f, W(hdr_layout.magic.off + i - 1))],
     page_size |-> ReadU32(f, hdr_layout.page_size.off),
     vendor_ramdisk_size |-> ReadU32(f, hdr_layout.vendor_ramdisk_size.off),
     dtb_size |-> ReadU32(f, hdr_layout.dtb_size.off)]

(***************************************************************************)
(* State                                                                   *)
(***************************************************************************)
VARIABLES
    pc,         \* where main is
    argc,       \* main's argc
    img,        \* the file at img_path
    f_vbi,      \* the input stream
    hdr,        \* the header's members main uses
    size_hdr,   \* long size_hdr
    size_rd,    \* long size_rd
    buf,        \* uint8_t *buf and the bytes it holds: img's from off, len of them
    f_wr,       \* the output stream
    art,        \* the two output files
    ret,        \* int ret
    status,     \* how the process ended
    diag,       \* error messages written to stderr
    reported,   \* what the two final printf wrote
    io_failed,  \* some library call failed (open, read, seek, malloc, write, flush)
    steps,      \* the steps of the pipeline done so far
    aligns,     \* the ALIGN evaluations so far
    seeks,      \* the offsets sought so far
    reads,      \* the segment reads so far: where, how much, the result
    misuse,     \* a stream or buffer was used or released when not held
    div0,       \* a division by zero was evaluated
    heap        \* buffers allocated and freed

vars == <<pc, argc, img, f_vbi, hdr, size_hdr, size_rd, buf, f_wr, art, ret,
          status, diag, reported, io_failed, steps, aligns, seeks, reads,
          misuse, div0, heap>>

Segs == {"ramdisk", "dtb"}

SegSize(seg) == IF seg = "ramdisk" THEN hdr.vendor_ramdisk_size ELSE hdr.dtb_size

SegFile(seg) == IF seg = "ramdisk" THEN VENDOR_RAMDISK ELSE VENDOR_DTB

\* most operands main is started with
MaxArgc == 3

NoFile ==
    [runs |-> <<>>, flen |-> W0,
     h |-> Header(<<>>, W0, W0, W0, PlainString, PlainString, 0),
     R |-> <<>>, D |-> <<>>]

\* an output file left by an earlier run
OldFile == [exists |-> TRUE, src |-> "old", off |-> W0, len |-> W(3), opens |-> 0, closes |-> 0]

AbsentFile == [exists |-> FALSE, src |-> "none", off |-> W0, len |-> W0, opens |-> 0, closes |-> 0]

NoReport == [n |-> 0, last |-> 0, beyond |-> FALSE]

Init ==
    /\ pc = <<"parse_args">>
    /\ argc = 0
    /\ img = NoFile
    /\ f_vbi = [st |-> "unset", pos |-> W0, opens |-> 0, closes |-> 0]
    /\ hdr = [magic |-> <<>>, page_size |-> W0, vendor_ramdisk_size |-> W0, dtb_size |-> W0]
    /\ size_hdr = W0
    /\ size_rd = W0
    /\ buf = [st |-> "unset", off |-> W0, len |-> W0]
    /\ f_wr = [st |-> "unset", name |-> ""]
    /\ \E a \in {OldFile, AbsentFile} : art = [n \in {VENDOR_RAMDISK, VENDOR_DTB} |-> a]
    /\ ret = "EXIT_FAILURE"
    /\ status = "running"
    /\ diag = {}
    /\ reported = [cmdline |-> NoReport, name |-> NoReport]
    /\ io_failed = FALSE
    /\ steps = {}
    /\ aligns = <<>>
    /\ seeks = <<>>
    /\ reads = <<>>
    /\ misuse = FALSE
    /\ div0 = FALSE
    /\ heap = [allocs |-> 0, frees |-> 0]

(***************************************************************************)
(* Releasing and using resources                                           *)
(***************************************************************************)
\* fclose(f_wr): the stream's buffered bytes reach the file, or (flushed
\* false) they do not and the file stays empty; the result is not looked at
CloseOutput(flushed) ==
    /\ f_wr' = [f_wr EXCEPT !.st = "closed"]
    /\ art' = IF f_wr.st = "open"
              THEN [art EXCEPT ![f_wr.name].closes = @ + 1,
                               ![f_wr.name].len = IF flushed THEN @ ELSE W0]
              ELSE art

\* free(buf): nothing on NULL
FreeBuf ==
    /\ buf' = [buf EXCEPT !.st = IF @ = "null" THEN "null" ELSE "freed"]
    /\ heap' = [heap EXCEPT !.frees = IF buf.st = "alloc" THEN @ + 1 ELSE @]

\* a process killed by a signal
Crash(sig) == pc' = <<"crashed">> /\ status' = sig

\* the labels main jumps to when a step fails
HeaderFailLabel == "err1"

\* a plausible slip: the seek's failure sent to the label that frees buf
SeekFailLabel_err2(seg) == "err2"

SeekFailLabel(seg) == "err1"

ReadFailLabel == "err2"

OpenFailLabel == "err2"

WriteFailLabel == "err3"

(***************************************************************************)
(* main, statement by statement                                            *)
(***************************************************************************)
\* err = parse_args(argc, argv, &img_path); if (err) return EXIT_SUCCESS;
ParseArgs ==
    /\ pc = <<"parse_args">>
    /\ \E n \in 1..MaxArgc :
          /\ argc' = n
          /\ IF n # 2
             THEN /\ diag' = diag \cup {"usage"}
                  /\ status' = "EXIT_SUCCESS"
                  /\ pc' = <<"exited">>
             ELSE /\ pc' = <<"fopen">>
                  /\ UNCHANGED <<diag, status>>
    /\ UNCHANGED <<img, f_vbi, hdr, size_hdr, size_rd, buf, f_wr, art, ret,
                   reported, io_failed, steps, aligns, seeks, reads, misuse, div0, heap>>

\* f_vbi = fopen(img_path, "r"); if (!f_vbi) return EXIT_FAILURE;
OpenInput ==
    /\ pc = <<"fopen">>
    /\ \E f \in Images \cup {NoFile} :
          IF f = NoFile
          THEN /\ diag' = diag \cup {"open"}
               /\ io_failed' = TRUE
               /\ status' = "EXIT_FAILURE"
               /\ pc' = <<"exited">>
               /\ UNCHANGED <<img, f_vbi>>
          ELSE /\ img' = f
               /\ f_vbi' = [f_vbi EXCEPT !.st = "open", !.pos = W0, !.opens = @ + 1]
               /\ pc' = <<"read_hdr">>
               /\ UNCHANGED <<diag, io_failed, status>>
    /\ UNCHANGED <<argc, hdr, size_hdr, size_rd, buf, f_wr, art, ret,
                   reported, steps, aligns, seeks, reads, misuse, div0, heap>>

\* err = file_read(&hdr, sizeof(hdr), f_vbi); if (err) goto err1;
ReadHeader ==
    /\ pc = <<"read_hdr">>
    /\ \E ioerr \in BOOLEAN :
          LET size == W(sizeof_hdr)
              num == FreadItems(size, Remaining(img, f_vbi.pos), ioerr)
          IN  /\ io_failed' = (io_failed \/ ioerr)
              /\ misuse' = (misuse \/ f_vbi.st # "open")
              /\ IF num = 1
                 THEN /\ hdr' = DecodeHdr(img)
                      /\ f_vbi' = [f_vbi EXCEPT !.pos = WAdd(@, size)]
                      /\ steps' = steps \cup {<<"header", "">>}
                      /\ pc' = <<"check_magic">>
                      /\ UNCHANGED diag
                 ELSE /\ diag' = diag \cup {"read"}
                      /\ pc' = <<HeaderFailLabel>>
                      /\ UNCHANGED <<hdr, f_vbi, steps>>
    /\ UNCHANGED <<argc, img, size_hdr, size_rd, buf, f_wr, art, ret, status,
                   reported, aligns, seeks, reads, div0, heap>>

\* if (strncmp((char *)hdr.magic, VENDOR_BOOT_MAGIC, VENDOR_BOOT_MAGIC_SIZE))
\*     { fprintf(stderr, "... Magic = '%s'\n", hdr.magic); goto err1; }
CheckMagic ==
    /\ pc = <<"check_magic">>
    /\ IF Strncmp(hdr.magic, VENDOR_BOOT_MAGIC, VENDOR_BOOT_MAGIC_SIZE) # 0
       THEN /\ diag' = diag \cup {"format"}
            /\ \E o \in OverreadOutcomes(Printf_s(img, hdr_layout.magic.off).beyond) :
                  IF o = "ok"
                  THEN pc' = <<HeaderFailLabel>> /\ UNCHANGED status
                  ELSE Crash(o)
            /\ UNCHANGED steps
       ELSE /\ steps' = steps \cup {<<"magic", "">>}
            /\ pc' = <<"align_hdr">>
            /\ UNCHANGED <<diag, status>>
    /\ UNCHANGED <<argc, img, f_vbi, hdr, size_hdr, size_rd, buf, f_wr, art, ret,
                   reported, io_failed, aligns, seeks, reads, misuse, div0, heap>>

\* size_hdr = ALIGN(VENDOR_HEADER_SIZE, hdr.page_size);
AlignHeader ==
    /\ pc = <<"align_hdr">>
    /\ IF hdr.page_size = W0
       THEN /\ div0' = TRUE
            /\ \E o \in DivZeroOutcomes :
                  IF o = "zero"
                  THEN size_hdr' = W0 /\ pc' = <<"seek", "ramdisk">> /\ UNCHANGED status
                  ELSE Crash(o) /\ UNCHANGED size_hdr
            /\ UNCHANGED aligns
       ELSE /\ size_hdr' = ALIGN(W(VENDOR_HEADER_SIZE), hdr.page_size)
            /\ aligns' = Append(aligns, [size |-> W(VENDOR_HEADER_SIZE),
                                         page_size |-> hdr.page_size,
                                         result |-> size_hdr'])
            /\ pc' = <<"seek", "ramdisk">>
            /\ UNCHANGED <<div0, status>>
    /\ UNCHANGED <<argc, img, f_vbi, hdr, size_rd, buf, f_wr, art, ret, diag,
                   reported, io_failed, steps, seeks, reads, misuse, heap>>

\* size_rd = ALIGN(hdr.vendor_ramdisk_size, hdr.page_size);
AlignRamdisk ==
    /\ pc = <<"align_rd">>
    /\ IF hdr.page_size = W0
       THEN /\ div0' = TRUE
            /\ \E o \in DivZeroOutcomes :
                  IF o = "zero"
                  THEN size_rd' = W0 /\ pc' = <<"seek", "dtb">> /\ UNCHANGED status
                  ELSE Crash(o) /\ UNCHANGED size_rd
            /\ UNCHANGED aligns
       ELSE /\ size_rd' = ALIGN(hdr.vendor_ramdisk_size, hdr.page_size)
            /\ aligns' = Append(aligns, [size |-> hdr.vendor_ramdisk_size,
                                         page_size |-> hdr.page_size,
                                         result |-> size_rd'])
            /\ pc' = <<"seek", "dtb">>
            /\ UNCHANGED <<div0, status>>
    /\ UNCHANGED <<argc, img, f_vbi, hdr, size_hdr, buf, f_wr, art, ret, diag,
                   reported, io_failed, steps, seeks, reads, misuse, heap>>

\* the offset main seeks to before it reads a segment
SeekTarget(seg) == IF seg = "ramdisk" THEN size_hdr ELSE WAdd(size_hdr, size_rd)

\* err = fseek(f_vbi, size_hdr, SEEK_SET);              if (err) goto err1;
\* err = fseek(f_vbi, size_hdr + size_rd, SEEK_SET);    if (err) goto err1;
Seek(seg) ==
    /\ pc = <<"seek", seg>>
    /\ \E ok \in BOOLEAN :
          /\ seeks' = Append(seeks, SeekTarget(seg))
          /\ misuse' = (misuse \/ f_vbi.st # "open")
          /\ io_failed' = (io_failed \/ ~ok)
          /\ IF ok
             THEN /\ f_vbi' = [f_vbi EXCEPT !.pos = SeekTarget(seg)]
                  /\ pc' = <<"malloc", seg>>
                  /\ UNCHANGED diag
             ELSE /\ diag' = diag \cup {"seek"}
                  /\ pc' = <<SeekFailLabel(seg)>>
                  /\ UNCHANGED f_vbi
    /\ UNCHANGED <<argc, img, hdr, size_hdr, size_rd, buf, f_wr, art, ret, status,
                   reported, steps, aligns, reads, div0, heap>>

\* buf = malloc(hdr.vendor_ramdisk_size);   buf = malloc(hdr.dtb_size);
\* the result is not checked
Malloc(seg) ==
    /\ pc = <<"malloc", seg>>
    /\ \E st \in {"alloc", "null"} :
          /\ buf' = [st |-> st, off |-> W0, len |-> W0]
          /\ heap' = [heap EXCEPT !.allocs = IF st = "alloc" THEN @ + 1 ELSE @]
          /\ io_failed' = (io_failed \/ st = "null")
    /\ pc' = <<"read", seg>>
    /\ UNCHANGED <<argc, img, f_vbi, hdr, size_hdr, size_rd, f_wr, art, ret, status,
                   diag, reported, steps, aligns, seeks, reads, misuse, div0>>

\* err = file_read(buf, hdr.vendor_ramdisk_size, f_vbi);  if (err) goto err2;
\* err = file_read(buf, hdr.dtb_size, f_vbi);             if (err) goto err2;
Read(seg) ==
    /\ pc = <<"read", seg>>
    /\ LET size == SegSize(seg)
           avail == Remaining(img, f_vbi.pos)
       IN  \E o \in IF buf.st = "null" /\ size # W0 /\ avail # W0
                    THEN NullReadOutcomes
                    ELSE {"ok", "ioerr"} :
              IF o = "SIGSEGV"
              THEN /\ Crash(o)
                   /\ reads' = Append(reads, [seg |-> seg, pos |-> f_vbi.pos, size |-> size,
                                              avail |-> avail, num |-> 0])
                   /\ UNCHANGED <<buf, f_vbi, steps, diag, io_failed, misuse>>
              ELSE LET num == IF o = "EFAULT" THEN 0
                              ELSE FreadItems(size, avail, o = "ioerr")
                   IN  /\ reads' = Append(reads, [seg |-> seg, pos |-> f_vbi.pos, size |-> size,
                                                  avail |-> avail, num |-> num])
                       /\ io_failed' = (io_failed \/ o # "ok")
                       /\ misuse' = (misuse \/ f_vbi.st # "open"
                                            \/ buf.st \in {"unset", "freed"})
                       /\ UNCHANGED status
                       /\ IF num = 1
                          THEN /\ buf' = [buf EXCEPT !.off = f_vbi.pos, !.len = size]
                               /\ f_vbi' = [f_vbi EXCEPT !.pos = WAdd(@, size)]
                               /\ steps' = steps \cup {<<"read", seg>>}
                               /\ pc' = <<"fopen_out", seg>>
                               /\ UNCHANGED diag
                          ELSE /\ diag' = diag \cup {"read"}
                               /\ pc' = <<ReadFailLabel>>
                               /\ UNCHANGED <<buf, f_vbi, steps>>
    /\ UNCHANGED <<argc, img, hdr, size_hdr, size_rd, f_wr, art, ret,
                   reported, aligns, seeks, div0, heap>>

\* f_wr = fopen(VENDOR_RAMDISK, "w");   if (!f_wr) goto err2;
\* f_wr = fopen(VENDOR_DTB, "w");       if (!f_wr) goto err2;
OpenOutput(seg) ==
    /\ pc = <<"fopen_out", seg>>
    /\ \E ok \in BOOLEAN :
          /\ io_failed' = (io_failed \/ ~ok)
          /\ IF ok
             THEN /\ f_wr' = [st |-> "open", name |-> SegFile(seg)]
                  /\ art' = [art EXCEPT ![SegFile(seg)] =
                                [exists |-> TRUE, src |-> "img", off |-> W0, len |-> W0,
                                 opens |-> @.opens + 1, closes |-> @.closes]]
                  /\ pc' = <<"write", seg>>
                  /\ UNCHANGED diag
             ELSE /\ diag' = diag \cup {"open"}
                  /\ pc' = <<OpenFailLabel>>
                  /\ UNCHANGED <<f_wr, art>>
    /\ UNCHANGED <<argc, img, f_vbi, hdr, size_hdr, size_rd, buf, ret, status,
                   reported, steps, aligns, seeks, reads, misuse, div0, heap>>

\* err = file_write(buf, hdr.vendor_ramdisk_size, f_wr);  if (err) goto err3;
\* err = file_write(buf, hdr.dtb_size, f_wr);             if (err) goto err3;
\* a failed write leaves none or all but one of the bytes in the file
Write(seg) ==
    /\ pc = <<"write", seg>>
    /\ \E ok \in BOOLEAN, part \in BOOLEAN :
          LET size == SegSize(seg)
              num == FwriteItems(size, ok)
              short == IF part /\ size # W0 THEN WSub(size, W1) ELSE W0
          IN  /\ io_failed' = (io_failed \/ ~ok)
              /\ misuse' = (misuse \/ f_wr.st # "open" \/ buf.st # "alloc")
              /\ art' = [art EXCEPT ![f_wr.name].off = buf.off,
                                    ![f_wr.name].len = IF num = 1 THEN size ELSE short]
              /\ IF num = 1
                 THEN /\ ~part
                      /\ steps' = steps \cup {<<"write", seg>>}
                      /\ pc' = IF seg = "ramdisk" THEN <<"close_rd">> ELSE <<"report">>
                      /\ UNCHANGED diag
                 ELSE /\ diag' = diag \cup {"write"}
                      /\ pc' = <<WriteFailLabel>>
                      /\ UNCHANGED steps
    /\ UNCHANGED <<argc, img, f_vbi, hdr, size_hdr, size_rd, buf, f_wr, ret, status,
                   reported, aligns, seeks, reads, div0, heap>>

\* fclose(f_wr); free(buf);     (after the ramdisk is written)
CloseRamdisk ==
    /\ pc = <<"close_rd">>
    /\ \E flushed \in BOOLEAN :
          /\ CloseOutput(flushed)
          /\ io_failed' = (io_failed \/ ~flushed)
          /\ steps' = IF flushed THEN steps ELSE steps \ {<<"write", "ramdisk">>}
    /\ FreeBuf
    /\ misuse' = (misuse \/ f_wr.st # "open" \/ buf.st \in {"unset", "freed"})
    /\ pc' = <<"align_rd">>
    /\ UNCHANGED <<argc, img, f_vbi, hdr, size_hdr, size_rd, ret, status, diag,
                   reported, aligns, seeks, reads, div0>>

\* printf("cmdline:      '%s'\n", hdr.cmdline);
\* printf("product name: '%s'\n", hdr.name);
\* ret = EXIT_SUCCESS;
Report ==
    /\ pc = <<"report">>
    /\ LET c == Printf_s(img, hdr_layout.cmdline.off)
           n == Printf_s(img, hdr_layout.name.off)
       IN  \E o \in OverreadOutcomes(c.beyond \/ n.beyond) :
              IF o = "ok"
              THEN /\ reported' = [cmdline |-> c, name |-> n]
                   /\ ret' = "EXIT_SUCCESS"
                   /\ steps' = steps \cup {<<"report", "">>}
                   /\ pc' = <<"err3">>
                   /\ UNCHANGED status
              ELSE /\ Crash(o)
                   /\ UNCHANGED <<reported, ret, steps>>
    /\ UNCHANGED <<argc, img, f_vbi, hdr, size_hdr, size_rd, buf, f_wr, art, diag,
                   io_failed, aligns, seeks, reads, misuse, div0, heap>>

\* err3: fclose(f_wr);
Err3 ==
    /\ pc = <<"err3">>
    /\ \E flushed \in BOOLEAN :
          /\ CloseOutput(flushed)
          /\ io_failed' = (io_failed \/ ~flushed)
          /\ steps' = IF flushed THEN steps
                      ELSE steps \ {<<"write", IF f_wr.name = VENDOR_RAMDISK
                                               THEN "ramdisk" ELSE "dtb">>}
    /\ misuse' = (misuse \/ f_wr.st # "open")
    /\ pc' = <<"err2">>
    /\ UNCHANGED <<argc, img, f_vbi, hdr, size_hdr, size_rd, buf, ret, status, diag,
                   reported, aligns, seeks, reads, div0, heap>>

\* err2: free(buf);
Err2 ==
    /\ pc = <<"err2">>
    /\ FreeBuf
    /\ misuse' = (misuse \/ buf.st \in {"unset", "freed"})
    /\ pc' = <<"err1">>
    /\ UNCHANGED <<argc, img, f_vbi, hdr, size_hdr, size_rd, f_wr, art, ret, status,
                   diag, reported, io_failed, steps, aligns, seeks, reads, div0>>

\* err1: fclose(f_vbi); return ret;
Err1 ==
    /\ pc = <<"err1">>
    /\ f_vbi' = [f_vbi EXCEPT !.st = "closed", !.closes = @ + 1]
    /\ misuse' = (misuse \/ f_vbi.st # "open")
    /\ status' = ret
    /\ pc' = <<"exited">>
    /\ UNCHANGED <<argc, img, hdr, size_hdr, size_rd, buf, f_wr, art, ret,
                   diag, reported, io_failed, steps, aligns, seeks, reads, div0, heap>>

Next ==
    \/ ParseArgs
    \/ OpenInput
    \/ ReadHeader
    \/ CheckMagic
    \/ AlignHeader
    \/ \E seg \in Segs : Seek(seg)
    \/ \E seg \in Segs : Malloc(seg)
    \/ \E seg \in Segs : Read(seg)
    \/ \E seg \in Segs : OpenOutput(seg)
    \/ \E seg \in Segs : Write(seg)
    \/ CloseRamdisk
    \/ AlignRamdisk
    \/ Report
    \/ Err3
    \/ Err2
    \/ Err1

Spec == Init /\ [][Next]_vars

\* the run is over
Terminated == pc \in {<<"exited">>, <<"crashed">>}

\* main returned
Exited == pc = <<"exited">>

Outputs == {VENDOR_RAMDISK, VENDOR_DTB}

\* the output file n holds exactly the bytes B, copied from the image
ArtEquals(n, B) ==
    /\ art[n].exists
    /\ art[n].src = "img"
    /\ art[n].len = W(Len(B))
    /\ \A i \in 1..Len(B) : FileByte(img, WAdd(art[n].off, W(i - 1))) = B[i]

\* the run has not touched output file n
Untouched(n) == art[n] \in {OldFile, AbsentFile}

\* the image is the one the format describes for its header and payloads
Laid(f) ==
    /\ f.h.magic = VENDOR_BOOT_MAGIC
    /\ f.h.vendor_ramdisk_size = W(Len(f.R))
    /\ f.h.dtb_size = W(Len(f.D))
    /\ Whole(f)

AllSteps ==
    {<<"header", "">>, <<"magic", "">>, <<"read", "ramdisk">>, <<"write", "ramdisk">>,
     <<"read", "dtb">>, <<"write", "dtb">>, <<"report", "">>}

\* ceil(S / P)
CeilDiv(S, P) ==
    LET dm == WDivMod(S, P)
    IN  IF dm.r = W0 THEN dm.q ELSE WAdd(dm.q, W1)

Multiple(x, P) == WDivMod(x, P).r = W0

\* no ALIGN evaluated so far passed 2^32, and none divided by zero
SoundGeometry ==
    /\ ~div0
    /\ \A i \in DOMAIN aligns : WLe(aligns[i].size, aligns[i].result)

\* the length of the string in a member of size bytes: up to the first NUL,
\* or the whole member
BoundedLen(str, size) ==
    LET z == RunNul(Run(W(size), str.text, str.fill), 0)
    IN  IF z >= 0 THEN z ELSE size

(***************************************************************************)
(* C1. Round trip: a run on a whole image with the right magic, page size  *)
(* P > 0, a ramdisk R and a dtb D that are not empty and declared with     *)
(* their lengths, in which no library call fails, ends with                *)
(* vendor_ramdisk.img = R, vendor_dtb.img = D and EXIT_SUCCESS.            *)
(***************************************************************************)
C1_RoundTrip ==
    (/\ Terminated
     /\ argc = 2
     /\ img # NoFile
     /\ Laid(img)
     /\ img.h.page_size # W0
     /\ Len(img.R) > 0
     /\ Len(img.D) > 0
     /\ ~io_failed)
    => /\ status = "EXIT_SUCCESS"
       /\ ArtEquals(VENDOR_RAMDISK, img.R)
       /\ ArtEquals(VENDOR_DTB, img.D)

(***************************************************************************)
(* C2. Magic mismatch: in a run on an input whose first 8 bytes are not    *)
(* "VNDRBOOT" (a NUL among them or not), neither output file is ever       *)
(* opened, created, truncated or written, no seek and no segment read is   *)
(* done, the run stops at the magic check if it gets there, and it ends    *)
(* with a failure status: EXIT_FAILURE when main returns.                  *)
(***************************************************************************)
C2_MagicMismatchAborts ==
    (/\ f_vbi.opens = 1
     /\ img.h.magic # VENDOR_BOOT_MAGIC)
    => /\ \A n \in Outputs : Untouched(n)
       /\ f_wr.st = "unset"
       /\ seeks = <<>>
       /\ reads = <<>>
       /\ aligns = <<>>
       /\ buf.st = "unset"
       /\ pc \in {<<"read_hdr">>, <<"check_magic">>, <<"err1">>, <<"exited">>, <<"crashed">>}
       /\ <<"magic", "">> \notin steps
       /\ (<<"header", "">> \in steps /\ pc # <<"check_magic">>) => "format" \in diag
       /\ Terminated => status \in {"EXIT_FAILURE", "SIGSEGV"}
       /\ Exited => status = "EXIT_FAILURE"

\* a run on a magic with a NUL in it was rejected
C2_Witness ==
    /\ Exited
    /\ <<"header", "">> \in steps
    /\ img.h.magic = <<86, 78, 68, 82, 0, 79, 79, 84>>
    /\ status = "EXIT_FAILURE"
    /\ "format" \in diag

(***************************************************************************)
(* C3. Zero page size: a header with the right magic and page_size = 0 is  *)
(* rejected with a format error and EXIT_FAILURE, and no division by zero  *)
(* is ever evaluated.                                                      *)
(***************************************************************************)
C3_ZeroPageSizeRejected ==
    /\ ~div0
    /\ (/\ Terminated
        /\ <<"magic", "">> \in steps
        /\ hdr.page_size = W0)
       => (status = "EXIT_FAILURE" /\ "format" \in diag)

(***************************************************************************)
(* C4. Truncated input: a segment read that asks for more bytes than are   *)
(* left in the stream reads nothing, the run ends with a read error and    *)
(* EXIT_FAILURE, and the segment's output file is never opened.  (Stated   *)
(* for the runs whose offsets are sound, to keep C3 and C6 out of it.)     *)
(***************************************************************************)
C4_TruncatedInputFails ==
    \A i \in DOMAIN reads :
        (SoundGeometry /\ WLt(reads[i].avail, reads[i].size))
        => /\ reads[i].num = 0
           /\ art[SegFile(reads[i].seg)].opens = 0
           /\ Terminated => (status = "EXIT_FAILURE" /\ "read" \in diag)

(***************************************************************************)
(* C5 as written. Zero-length segment: in a run on a whole image with the  *)
(* right magic and sound offsets in which no library call fails, a segment *)
(* read of 0 bytes succeeds and the segment's output file is created with  *)
(* length 0.                                                               *)
(***************************************************************************)
C5_ZeroLengthSegmentExtracted ==
    \A i \in DOMAIN reads :
        (reads[i].size = W0 /\ Laid(img) /\ SoundGeometry /\ ~io_failed)
        => /\ reads[i].num = 1
           /\ Terminated
              => (/\ art[SegFile(reads[i].seg)].opens = 1
                  /\ art[SegFile(reads[i].seg)].len = W0)

(***************************************************************************)
(* C5 as amended. Zero-length segment: a segment read of 0 bytes reads no  *)
(* item, file_read reports a read error, the run goes down the error path  *)
(* to EXIT_FAILURE, and the segment's output file is not opened.           *)
(***************************************************************************)
C5_ZeroLengthSegmentFails ==
    \A i \in DOMAIN reads :
        reads[i].size = W0
        => /\ reads[i].num = 0
           /\ "read" \in diag
           /\ art[SegFile(reads[i].seg)].opens = 0
           /\ pc \in {<<"err2">>, <<"err1">>, <<"exited">>}
           /\ Terminated => status = "EXIT_FAILURE"

\* a run with nothing failing around it ended on a dtb of size 0, after the
\* ramdisk was extracted
C5_Witness ==
    /\ Exited
    /\ ~io_failed
    /\ Len(reads) = 2
    /\ reads[2].seg = "dtb"
    /\ reads[2].size = W0
    /\ ArtEquals(VENDOR_RAMDISK, img.R)

(***************************************************************************)
(* C6. Alignment arithmetic: every ALIGN(S, P) the program evaluates with  *)
(* P > 0 is ceil(S / P) * P, is at least S, and exceeds S by less than P.  *)
(***************************************************************************)
C6_AlignIsCeil ==
    \A i \in DOMAIN aligns :
        LET a == aligns[i]
        IN  /\ a.result = WMul(CeilDiv(a.size, a.page_size), a.page_size)
            /\ WLe(a.size, a.result)
            /\ WLt(WSub(a.result, a.size), a.page_size)

(***************************************************************************)
(* C7. Exit status: a run ends with EXIT_SUCCESS only if every step of the *)
(* pipeline was done: header read, magic checked, both segments read and   *)
(* fully written, cmdline and name reported.                               *)
(***************************************************************************)
C7_SuccessOnlyIfComplete ==
    (Terminated /\ status = "EXIT_SUCCESS") => AllSteps \subseteq steps

(***************************************************************************)
(* C8. Bounded string reporting: on a successful run (here: one in which   *)
(* no library call failed) the reported cmdline and name are the member's  *)
(* bytes up to its first NUL or its whole size (2048, 16), and no byte     *)
(* outside the member is read.                                             *)
(***************************************************************************)
C8_BoundedReport ==
    (Exited /\ status = "EXIT_SUCCESS" /\ <<"report", "">> \in steps /\ ~io_failed)
    => /\ reported.cmdline.n = BoundedLen(img.h.cmdline, VENDOR_BOOT_ARGS_SIZE)
       /\ reported.cmdline.last < hdr_layout.cmdline.off + hdr_layout.cmdline.size
       /\ reported.name.n = BoundedLen(img.h.name, VENDOR_BOOT_NAME_SIZE)
       /\ reported.name.last < hdr_layout.name.off + hdr_layout.name.size

(***************************************************************************)
(* C9. Segment geometry: with page_size > 0 the ramdisk is read from an    *)
(* offset >= 2112, the dtb from size_hdr + size_rd, which is at least the  *)
(* ramdisk's offset plus vendor_ramdisk_size, and both offsets are         *)
(* multiples of page_size.  (Shown on the runs in which no library call    *)
(* fails.)                                                                 *)
(***************************************************************************)
C9_SegmentGeometry ==
    (hdr.page_size # W0 /\ ~io_failed)
    => /\ Len(reads) >= 1
          => /\ reads[1].seg = "ramdisk"
             /\ WLe(W(VENDOR_HEADER_SIZE), reads[1].pos)
             /\ Multiple(reads[1].pos, hdr.page_size)
       /\ Len(reads) >= 2
          => /\ reads[2].seg = "dtb"
             /\ reads[2].pos = WAdd(size_hdr, size_rd)
             /\ WLe(WAdd(reads[1].pos, hdr.vendor_ramdisk_size), reads[2].pos)
             /\ Multiple(reads[2].pos, hdr.page_size)

(***************************************************************************)
(* C10. Resource release: no stream or buffer is used or released when it  *)
(* is not held, none is released more often than acquired, and when main   *)
(* returns, on success or after any failure, the input stream, each        *)
(* output stream that was opened and each buffer that was allocated has    *)
(* been released exactly once.                                             *)
(***************************************************************************)
C10_ResourcesReleasedOnce ==
    /\ ~misuse
    /\ f_vbi.closes <= f_vbi.opens
    /\ f_vbi.opens <= 1
    /\ \A n \in Outputs : art[n].closes <= art[n].opens /\ art[n].opens <= 1
    /\ heap.frees <= heap.allocs
    /\ Exited
       => /\ f_vbi.closes = f_vbi.opens
          /\ f_vbi.st # "open"
          /\ \A n \in Outputs : art[n].closes = art[n].opens
          /\ f_wr.st # "open"
          /\ heap.frees = heap.allocs
          /\ buf.st # "alloc"

\* main returned after the write of the dtb failed: by then it had opened
\* all three streams and allocated both buffers
C10_Witness ==
    /\ Exited
    /\ <<"write", "ramdisk">> \in steps
    /\ <<"write", "dtb">> \notin steps
    /\ "write" \in diag
    /\ f_vbi.closes = 1
    /\ art[VENDOR_RAMDISK].closes = 1
    /\ art[VENDOR_DTB].closes = 1
    /\ heap.frees = 2

=============================================================================
